---- MODULE Spec2Model ----
(***************************************************************************)
(* Model of easyocr-server/main.py: the Flask OCR server.                  *)
(*                                                                         *)
(* Strings (file names, paths, recognised texts, form values) are          *)
(* sequences of one-symbol strings.  Pixel coordinates are floats with a   *)
(* fractional part: a coordinate c stands for the number c / CoordDen.     *)
(* The OCR engine (easyocr.Reader.readtext) is opaque: it either raises or *)
(* returns a sequence of detections <<quad, text, confidence>>.            *)
(***************************************************************************)
EXTENDS Integers, Sequences, FiniteSets, TLC

(* ------------------------------ bounds --------------------------------- *)
\* number of POST /api/ocr requests the server receives (handled concurrently)
MaxRequests == 2
\* the clock (seconds) runs from 0 to MaxTime
MaxTime == 1
\* coordinates range over (-CoordMax)..(CoordMax + 1), in units of 1/CoordDen
CoordMax == 1
\* denominator of the fractional coordinates
CoordDen == 2
\* longest detection sequence the engine returns in SpecFormat
MaxDetections == 3
\* longest recognised text in SpecFormat
MaxTextLen == 1

VARIABLES
    phase,             \* "loading" while the module is imported, then "serving"
    ocr,               \* global ocr: "None" or "Reader"
    is_initialized,    \* global is_initialized
    readers,           \* number of easyocr.Reader instances constructed so far
    now,               \* int(time.time())
    fs,                \* the temp directory: path -> [writer, data] of the file
    pc,                \* per request: position in process_ocr
    image_keys,        \* per request: is 'image' in request.files / request.form
    image_path,        \* per request: local image_path (<<>> is None)
    formatted_result,  \* per request: local formatted_result
    error,             \* per request: the exception caught at line 97
    resp,              \* per request: the response returned
    healthResp,        \* the last response of GET /api/health
    quad,              \* reducer alone: the quadrilateral
    bbox,              \* reducer alone: the box computed from quad
    result,            \* assembler alone: the engine's detections
    formatted,         \* assembler alone: the payload built from result
    pure_pc            \* reducer / assembler alone: "off", then input -> output

serverVars ==
    <<phase, ocr, is_initialized, readers, now, fs, pc, image_keys, image_path, formatted_result, error, resp, healthResp>>

pureVars == <<quad, bbox, result, formatted, pure_pc>>

vars == <<serverVars, pureVars>>

Requests == 1..MaxRequests

(* ------------------------ Python / library helpers --------------------- *)
Min2(a, b) == IF a <= b THEN a ELSE b

Max2(a, b) == IF a >= b THEN a ELSE b

\* int(c / CoordDen) on a Python float: truncation toward zero
PyInt(c) == IF c >= 0 THEN c \div CoordDen ELSE 0 - ((0 - c) \div CoordDen)

DigitChars == <<"0", "1", "2", "3", "4", "5", "6", "7", "8", "9">>

RECURSIVE PyStrInt(_)
\* str(n) for n >= 0, as in the f-string of line 68
PyStrInt(n) ==
    IF n < 10 THEN <<DigitChars[n + 1]>>
    ELSE PyStrInt(n \div 10) \o <<DigitChars[(n % 10) + 1]>>

RECURSIVE PySplit(_, _)
\* s.split(sep)
PySplit(s, sep) ==
    IF \A i \in 1..Len(s) : s[i] /= sep THEN <<s>>
    ELSE LET i == CHOOSE k \in 1..Len(s) :
                      s[k] = sep /\ \A j \in 1..(k - 1) : s[j] /= sep
         IN  <<SubSeq(s, 1, i - 1)>> \o PySplit(SubSeq(s, i + 1, Len(s)), sep)

RECURSIVE PyJoin(_, _)
\* sep.join(parts)
PyJoin(sep, parts) ==
    IF parts = <<>> THEN <<>>
    ELSE IF Len(parts) = 1 THEN parts[1]
    ELSE parts[1] \o sep \o PyJoin(sep, Tail(parts))

IsFilenameChar(c) ==
    c \in {"a", "b", "c", "d", "e", "f", "g", "h", "i", "j", "k", "l", "m",
           "n", "o", "p", "q", "r", "s", "t", "u", "v", "w", "x", "y", "z",
           "0", "1", "2", "3", "4", "5", "6", "7", "8", "9", "-", ".", "_"}

RECURSIVE StripDotUnderscore(_)
StripDotUnderscore(s) ==
    IF s = <<>> THEN s
    ELSE IF s[1] \in {".", "_"} THEN StripDotUnderscore(Tail(s))
    ELSE IF s[Len(s)] \in {".", "_"} THEN StripDotUnderscore(SubSeq(s, 1, Len(s) - 1))
    ELSE s

IsNonEmpty(s) == s /= <<>>

\* werkzeug.utils.secure_filename: path separators become spaces, runs of
\* whitespace become one "_", unsafe characters are dropped, leading and
\* trailing dots and underscores are stripped
secure_filename(name) ==
    LET spaced == [i \in 1..Len(name) |-> IF name[i] = "/" THEN " " ELSE name[i]]
        words  == SelectSeq(PySplit(spaced, " "), IsNonEmpty)
        joined == PyJoin(<<"_">>, words)
    IN  StripDotUnderscore(SelectSeq(joined, IsFilenameChar))

gettempdir == <<"/", "t", "m", "p">>

\* os.path.join(a, b)
os_path_join(a, b) ==
    IF b /= <<>> /\ b[1] = "/" THEN b ELSE a \o <<"/">> \o b

\* a path ending in the separator names a directory: it cannot be opened for writing
IsDirectory(path) == path /= <<>> /\ path[Len(path)] = "/"

IsB64Quantum(c) == c \in {"Qx", "Qy"}

\* base64.b64decode(s) with validate=False: characters outside the alphabet are
\* discarded; "Qx"/"Qy" are complete quanta decoding to the bytes "x"/"y";
\* "T" is a truncated quantum, which makes the decoder raise binascii.Error
b64decode(s) ==
    IF \E i \in 1..Len(s) : s[i] = "T"
    THEN [ok |-> FALSE, data |-> <<>>]
    ELSE LET q == SelectSeq(s, IsB64Quantum)
         IN  [ok |-> TRUE,
              data |-> [i \in 1..Len(q) |-> IF q[i] = "Qx" THEN "x" ELSE "y"]]

(* ------------------------------ inputs --------------------------------- *)
NoFile == [present |-> FALSE, filename |-> <<>>, data |-> <<>>]

NoForm == [present |-> FALSE, value |-> <<>>]

UploadNames ==
    { <<"a">>,
      <<".", ".", "/", "a">>,
      <<"/">>,
      <<"i", "m", "a", "g", "e", "-", "0", ".", "p", "n", "g">> }

ImageBytes == { <<"x">> }

FileParts ==
    { [present |-> TRUE, filename |-> n, data |-> d] : n \in UploadNames, d \in ImageBytes }

FormValues ==
    { <<":", ",", "Qx">>,
      <<":", ",", "Qy">>,
      <<":", ",", "Qx", ",", "Qy">>,
      <<"Qx">>,
      <<":", ",", "T">> }

FormFields == { [present |-> TRUE, value |-> v] : v \in FormValues }

\* the Flask request objects a POST /api/ocr can carry: no image at all, a file
\* part, a form field, or both
HttpRequests ==
    { [files |-> NoFile, form |-> NoForm] }
    \cup { [files |-> f, form |-> NoForm] : f \in FileParts }
    \cup { [files |-> NoFile, form |-> g] : g \in FormFields }
    \cup { [files |-> f, form |-> g] :
               f \in { h \in FileParts : h.filename = <<"a">> },
               g \in { h \in FormFields : h.value = <<"Qx">> } }

(* --------------------------- bounding boxes ---------------------------- *)
\* lines 81-86, the 'bbox' of one detection; item[0] is the quadrilateral,
\* points and coordinates are 1-based here (item[0][3][0] is q[4][1])
BBoxSwapped(q) ==
    [x0 |-> PyInt(Max2(q[1][1], q[4][1])),
     y0 |-> PyInt(Max2(q[1][2], q[2][2])),
     x1 |-> PyInt(Min2(q[2][1], q[3][1])),
     y1 |-> PyInt(Min2(q[3][2], q[4][2]))]

BBoxWrongCorner(q) ==
    [x0 |-> PyInt(Min2(q[1][1], q[2][1])),
     y0 |-> PyInt(Min2(q[1][2], q[2][2])),
     x1 |-> PyInt(Max2(q[2][1], q[3][1])),
     y1 |-> PyInt(Max2(q[3][2], q[4][2]))]

BBox(q) ==
    [x0 |-> PyInt(Min2(q[1][1], q[4][1])),
     y0 |-> PyInt(Min2(q[1][2], q[2][2])),
     x1 |-> PyInt(Max2(q[2][1], q[3][1])),
     y1 |-> PyInt(Max2(q[3][2], q[4][2]))]

(* --------------------------- result assembly --------------------------- *)
IsNonEmptyText(item) == item[2] /= <<>>

\* lines 76-89 with empty-text detections skipped
FormatResultSkipEmpty(res) ==
    LET kept == SelectSeq(res, IsNonEmptyText)
    IN  [text  |-> PyJoin(<<" ">>, [i \in 1..Len(kept) |-> kept[i][2]]),
         words |-> [i \in 1..Len(kept) |->
                       [text |-> kept[i][2], bbox |-> BBox(kept[i][1])]]]

\* lines 76-89: formatted_result
FormatResult(res) ==
    [text  |-> PyJoin(<<" ">>, [i \in 1..Len(res) |-> res[i][2]]),
     words |-> [i \in 1..Len(res) |->
                   [text |-> res[i][2], bbox |-> BBox(res[i][1])]]]

(* ------------------------------ the engine ----------------------------- *)
SampleQuad == << <<0, 0>>, <<3, 0>>, <<3, 2>>, <<0, 2>> >>

\* what ocr.readtext returns in the server model when it returns normally
EngineResults == { << <<SampleQuad, <<"a">>, 1>> >> }

NoError == [type |-> "none", msg |-> "none"]

\* what ocr.readtext raises on an image it cannot process
EngineFailures == { [type |-> "EngineFailure", msg |-> "corrupt image"] }

\* what ocr.readtext raises when nothing can be read at the path
EngineUnreadable == [type |-> "EngineFailure", msg |-> "unreadable path"]

(* ----------------------------- responses ------------------------------- *)
NoBody == [none |-> TRUE]

NoResp == [code |-> 0, body |-> NoBody]

NoHealth == [code |-> 0, body |-> [status |-> "none", ocrInitialized |-> FALSE]]

NoResult == [text |-> <<>>, words |-> <<>>]

NoPath == <<>>

\* line 54 without its status code
MissingImagePassed == [code |-> 200, body |-> [error |-> <<"No image provided">>]]

\* line 54

MissingImageResponse == [code |-> 400, body |-> [error |-> <<"No image provided">>]]

\* lines 97-99: the handler of every exception raised inside the try block
ErrorAnswered200(e) ==
    [code |-> 200, body |-> [error |-> <<"Failed to process image: ", e.msg>>]]

ErrorResponse(e) ==
    [code |-> 500, body |-> [error |-> <<"Failed to process image: ", e.msg>>]]

\* line 95
SuccessResponse(payload) == [code |-> 200, body |-> payload]

(* --------------------------- engine lifecycle -------------------------- *)
\* initialize_ocr with the assignment to is_initialized lost
initialize_ocr_flag_lost(g) ==
    IF g.ocr = "None"
    THEN [ocr |-> "Reader", is_initialized |-> g.is_initialized, readers |-> g.readers + 1]
    ELSE g

\* lines 32-37
initialize_ocr(g) ==
    IF g.ocr = "None"
    THEN [ocr |-> "Reader", is_initialized |-> TRUE, readers |-> g.readers + 1]
    ELSE g

\* a reader constructed by every request
ensure_initialized_fresh(g) ==
    [ocr |-> "Reader", is_initialized |-> TRUE, readers |-> g.readers + 1]

\* lines 48-50
ensure_initialized(g) ==
    IF ~g.is_initialized THEN initialize_ocr(g) ELSE g

Globals == [ocr |-> ocr, is_initialized |-> is_initialized, readers |-> readers]

SetGlobals(g) ==
    /\ ocr' = g.ocr
    /\ is_initialized' = g.is_initialized
    /\ readers' = g.readers

(* ------------------------------ ingestion ------------------------------ *)
\* line 53 negated
HasImage(req) == req.files.present \/ req.form.present

\* lines 60-70: the path, the bytes and the exception (if any) of materialising
\* the image; written says whether the file was written in full
Ingest(req, t) ==
    IF req.files.present
    THEN LET path == os_path_join(gettempdir, secure_filename(req.files.filename))
         IN  IF IsDirectory(path)
             THEN [path |-> path, data |-> <<>>, written |-> FALSE,
                   error |-> [type |-> "IsADirectoryError", msg |-> "is a directory"]]
             ELSE [path |-> path, data |-> req.files.data, written |-> TRUE,
                   error |-> NoError]
    ELSE LET parts == PySplit(req.form.value, ",")
         IN  IF Len(parts) < 2
             THEN [path |-> NoPath, data |-> <<>>, written |-> FALSE,
                   error |-> [type |-> "IndexError", msg |-> "list index out of range"]]
             ELSE LET dec == b64decode(parts[2])
                  IN  IF ~dec.ok
                      THEN [path |-> NoPath, data |-> <<>>, written |-> FALSE,
                            error |-> [type |-> "binascii.Error", msg |-> "Incorrect padding"]]
                      ELSE [path |-> os_path_join(gettempdir,
                                        <<"i", "m", "a", "g", "e", "-">> \o PyStrInt(t)
                                            \o <<".", "p", "n", "g">>),
                            data |-> dec.data, written |-> TRUE, error |-> NoError]

\* os.remove(path) on the temp directory
RemoveNothing(files, path) == files

RemoveFile(files, path) == [p \in (DOMAIN files) \ {path} |-> files[p]]

\* open(path, 'wb').write(data) / file.save(path) by request r
WriteFile(files, path, r, data) == (path :> [writer |-> r, data |-> data]) @@ files

(* ------------------------------- actions ------------------------------- *)
Init ==
    /\ phase = "loading"
    /\ ocr = "None"
    /\ is_initialized = FALSE
    /\ readers = 0
    /\ now = 0
    /\ fs = <<>>
    /\ pc = [r \in Requests |-> "new"]
    /\ image_keys = [r \in Requests |-> [files |-> FALSE, form |-> FALSE]]
    /\ image_path = [r \in Requests |-> NoPath]
    /\ formatted_result = [r \in Requests |-> NoResult]
    /\ error = [r \in Requests |-> NoError]
    /\ resp = [r \in Requests |-> NoResp]
    /\ healthResp = NoHealth
    /\ quad = <<>>
    /\ bbox = [x0 |-> 0, y0 |-> 0, x1 |-> 0, y1 |-> 0]
    /\ result = <<>>
    /\ formatted = NoResult
    /\ pure_pc = "off"

\* line 40: initialize_ocr() while the module is imported, before any request
Startup ==
    /\ phase = "loading"
    /\ SetGlobals(initialize_ocr(Globals))
    /\ phase' = "serving"
    /\ UNCHANGED <<now, fs, pc, image_keys, image_path,
                   formatted_result, error, resp, healthResp, pureVars>>

\* the wall clock advances by a second
Tick ==
    /\ phase = "serving"
    /\ now < MaxTime
    /\ now' = now + 1
    /\ UNCHANGED <<phase, ocr, is_initialized, readers, fs, pc, image_keys,
                   image_path, formatted_result, error, resp,
                   healthResp, pureVars>>

\* line 44: the body of the health response
health_body(flag) == [status |-> "ok", ocrInitialized |-> flag]

\* lines 42-44
health_check ==
    /\ phase = "serving"
    /\ healthResp' = [code |-> 200, body |-> health_body(is_initialized)]
    /\ UNCHANGED <<phase, ocr, is_initialized, readers, now, fs, pc, image_keys,
                   image_path, formatted_result, error, resp, pureVars>>

\* lines 47-70 for request r carrying req: lazy initialisation, the presence
\* check, and the write of the temp file
Begin(r, req) ==
    /\ phase = "serving"
    /\ pc[r] = "new"
    /\ SetGlobals(ensure_initialized(Globals))
    /\ image_keys' = [image_keys EXCEPT ![r] =
                         [files |-> req.files.present, form |-> req.form.present]]
    /\ IF ~HasImage(req)
       THEN /\ resp' = [resp EXCEPT ![r] = MissingImageResponse]
            /\ pc' = [pc EXCEPT ![r] = "done"]
            /\ UNCHANGED <<fs, image_path, error>>
       ELSE LET ing == Ingest(req, now)
            IN  /\ image_path' = [image_path EXCEPT ![r] = ing.path]
                /\ IF ing.written
                   THEN /\ fs' = WriteFile(fs, ing.path, r, ing.data)
                        /\ pc' = [pc EXCEPT ![r] = "ocr"]
                        /\ UNCHANGED <<error, resp>>
                   ELSE /\ error' = [error EXCEPT ![r] = ing.error]
                        /\ resp' = [resp EXCEPT ![r] = ErrorResponse(ing.error)]
                        /\ pc' = [pc EXCEPT ![r] = "done"]
                        /\ UNCHANGED fs
    /\ UNCHANGED <<phase, now, formatted_result, healthResp, pureVars>>

\* POST /api/ocr arrives and is handled up to the engine call
process_ocr_begin == \E r \in Requests, req \in HttpRequests : Begin(r, req)

\* the request is answered 500 with exception e (lines 97-99)
Raise(r, e) ==
    /\ error' = [error EXCEPT ![r] = e]
    /\ resp' = [resp EXCEPT ![r] = ErrorResponse(e)]
    /\ pc' = [pc EXCEPT ![r] = "done"]

\* lines 73-89: the engine call and the assembly of formatted_result
Detect(r) ==
    /\ pc[r] = "ocr"
    /\ IF image_path[r] \in DOMAIN fs
       THEN \/ \E e \in EngineFailures :
                  /\ Raise(r, e)
                  /\ UNCHANGED formatted_result
            \/ \E out \in EngineResults :
                  /\ formatted_result' = [formatted_result EXCEPT ![r] = FormatResult(out)]
                  /\ pc' = [pc EXCEPT ![r] = "cleanup"]
                  /\ UNCHANGED <<error, resp>>
       ELSE /\ Raise(r, EngineUnreadable)
            /\ UNCHANGED formatted_result
    /\ UNCHANGED <<phase, ocr, is_initialized, readers, now, fs, image_keys,
                   image_path, healthResp, pureVars>>

process_ocr_detect == \E r \in Requests : Detect(r)

\* line 92: the existence test; with no file to remove the request goes on to line 95
CheckExists(r) ==
    /\ pc[r] = "cleanup"
    /\ IF image_path[r] /= NoPath /\ image_path[r] \in DOMAIN fs
       THEN /\ pc' = [pc EXCEPT ![r] = "remove"]
            /\ UNCHANGED resp
       ELSE /\ resp' = [resp EXCEPT ![r] = SuccessResponse(formatted_result[r])]
            /\ pc' = [pc EXCEPT ![r] = "done"]
    /\ UNCHANGED <<phase, ocr, is_initialized, readers, now, fs, image_keys,
                   image_path, formatted_result, error, healthResp,
                   pureVars>>

process_ocr_exists == \E r \in Requests : CheckExists(r)

\* lines 93-95: os.remove and the 200 response; os.remove raises when the file
\* has gone since line 92
Remove(r) ==
    /\ pc[r] = "remove"
    /\ IF image_path[r] \in DOMAIN fs
       THEN /\ fs' = RemoveFile(fs, image_path[r])
            /\ resp' = [resp EXCEPT ![r] = SuccessResponse(formatted_result[r])]
            /\ pc' = [pc EXCEPT ![r] = "done"]
            /\ UNCHANGED error
       ELSE /\ Raise(r, [type |-> "FileNotFoundError", msg |-> "No such file or directory"])
            /\ UNCHANGED fs
    /\ UNCHANGED <<phase, ocr, is_initialized, readers, now, image_keys,
                   image_path, formatted_result, healthResp, pureVars>>

process_ocr_remove == \E r \in Requests : Remove(r)

Next ==
    \/ Startup
    \/ Tick
    \/ health_check
    \/ process_ocr_begin
    \/ process_ocr_detect
    \/ process_ocr_exists
    \/ process_ocr_remove

\* the server with its requests handled concurrently
Spec == Init /\ [][Next]_vars

(* ------------------ the server, one request at a time ------------------ *)
NoneInFlight == \A q \in Requests : pc[q] \in {"new", "done"}

\* POST /api/ocr arrives while no other request is being handled
process_ocr_begin_alone ==
    /\ NoneInFlight
    /\ \E r \in Requests, req \in HttpRequests : Begin(r, req)

NextSeq ==
    \/ Startup
    \/ Tick
    \/ health_check
    \/ process_ocr_begin_alone
    \/ process_ocr_detect
    \/ process_ocr_exists
    \/ process_ocr_remove

\* the server with its requests handled one after the other
SpecSeq == Init /\ [][NextSeq]_vars

(* ------------------- the bounding-box reducer alone -------------------- *)
CoordRange == (0 - CoordMax)..(CoordMax + 1)

Points == CoordRange \X CoordRange

Quads == Points \X Points \X Points \X Points

InitServerIdle ==
    /\ phase = "loading"
    /\ ocr = "None"
    /\ is_initialized = FALSE
    /\ readers = 0
    /\ now = 0
    /\ fs = <<>>
    /\ pc = [r \in Requests |-> "new"]
    /\ image_keys = [r \in Requests |-> [files |-> FALSE, form |-> FALSE]]
    /\ image_path = [r \in Requests |-> NoPath]
    /\ formatted_result = [r \in Requests |-> NoResult]
    /\ error = [r \in Requests |-> NoError]
    /\ resp = [r \in Requests |-> NoResp]
    /\ healthResp = NoHealth

InitBBox ==
    /\ InitServerIdle
    /\ quad \in Quads
    /\ bbox = [x0 |-> 0, y0 |-> 0, x1 |-> 0, y1 |-> 0]
    /\ result = <<>>
    /\ formatted = NoResult
    /\ pure_pc = "quad"

\* lines 81-86 applied to quad
Reduce ==
    /\ pure_pc = "quad"
    /\ bbox' = BBox(quad)
    /\ pure_pc' = "box"
    /\ UNCHANGED <<serverVars, quad, result, formatted>>

NextBBox == Reduce

SpecBBox == InitBBox /\ [][NextBBox]_vars

(* --------------------- the result assembler alone ---------------------- *)
SeqsUpTo(S, n) == UNION { [1..k -> S] : k \in 0..n }

TextChars == {"a", " "}

Texts == SeqsUpTo(TextChars, MaxTextLen)

SkewQuad == << <<1, 0 - 1>>, <<3, 0>>, <<2, 3>>, <<0 - 1, 2>> >>

Detections == { <<q, t, 1>> : q \in {SampleQuad, SkewQuad}, t \in Texts }

InitFormat ==
    /\ InitServerIdle
    /\ quad = <<>>
    /\ bbox = [x0 |-> 0, y0 |-> 0, x1 |-> 0, y1 |-> 0]
    /\ result \in SeqsUpTo(Detections, MaxDetections)
    /\ formatted = NoResult
    /\ pure_pc = "result"

\* lines 76-89 applied to result
Assemble ==
    /\ pure_pc = "result"
    /\ formatted' = FormatResult(result)
    /\ pure_pc' = "formatted"
    /\ UNCHANGED <<serverVars, quad, bbox, result>>

NextFormat == Assemble

SpecFormat == InitFormat /\ [][NextFormat]_vars

(* ============================== claims ================================= *)
Answered(r) == pc[r] # "done" /\ pc'[r] = "done"

Base64Only(r) == ~image_keys[r].files /\ image_keys[r].form

(* C1: whenever a request whose temp file was written is answered because   *)
(* ocr.readtext raised, the answer is 500, its error field contains the     *)
(* engine's message, and the temp file does not exist at that moment.       *)
C1_EngineFailureRemovesTempFile ==
    [][\A r \in Requests :
          (Answered(r) /\ pc[r] = "ocr" /\ error'[r].type = "EngineFailure")
              => /\ resp'[r].code = 500
                 /\ \E i \in DOMAIN resp'[r].body.error :
                        resp'[r].body.error[i] = error'[r].msg
                 /\ image_path[r] \notin DOMAIN fs']_vars

(* C2: with requests handled one at a time, a base64 request has its temp   *)
(* file on disk, written by itself, while it waits for the engine, and the  *)
(* file does not exist at the moment its 200 response is returned.          *)
C2_Base64TempFileLifecycle ==
    /\ [](\A r \in Requests :
             (Base64Only(r) /\ pc[r] = "ocr")
                 => /\ image_path[r] \in DOMAIN fs
                    /\ fs[image_path[r]].writer = r)
    /\ [][\A r \in Requests :
             (Answered(r) /\ Base64Only(r) /\ resp'[r].code = 200)
                 => /\ pc[r] \in {"cleanup", "remove"}
                    /\ image_path[r] # NoPath
                    /\ image_path[r] \notin DOMAIN fs']_vars

C2_Witness ==
    \E r \in Requests :
        /\ pc[r] = "done"
        /\ Base64Only(r)
        /\ resp[r].code = 200
        /\ image_path[r] # NoPath
        /\ image_path[r] \notin DOMAIN fs

(* C3: a request with no 'image' key in its files and none in its form is   *)
(* answered at once with status 400 and a body holding an error field.      *)
C3_MissingImageIs400 ==
    \A r \in Requests :
        (pc[r] # "new" /\ ~image_keys[r].files /\ ~image_keys[r].form)
            => /\ pc[r] = "done"
               /\ resp[r].code = 400
               /\ DOMAIN resp[r].body = {"error"}

C3_Witness ==
    \E r \in Requests :
        /\ pc[r] = "done"
        /\ ~image_keys[r].files
        /\ ~image_keys[r].form
        /\ resp[r].code = 400

RECURSIVE SumLen(_, _)
\* the length of the first n detection texts, each followed by a separator
SumLen(res, n) == IF n = 0 THEN 0 ELSE SumLen(res, n - 1) + Len(res[n][2]) + 1

(* C4: the payload has one word per detection, in the engine's order, with  *)
(* the detection's text; and its text is those texts laid end to end with   *)
(* exactly one space between neighbours.                                    *)
C4_WordsAndTextFollowDetections ==
    pure_pc = "formatted" =>
        /\ Len(formatted.words) = Len(result)
        /\ \A i \in 1..Len(result) : formatted.words[i].text = result[i][2]
        /\ Len(formatted.text) =
               IF result = <<>> THEN 0 ELSE SumLen(result, Len(result)) - 1
        /\ \A i \in 1..Len(result) :
               LET off == SumLen(result, i - 1)
               IN  /\ SubSeq(formatted.text, off + 1, off + Len(result[i][2]))
                          = result[i][2]
                   /\ i < Len(result)
                          => formatted.text[off + Len(result[i][2]) + 1] = " "

C4_Witness ==
    /\ pure_pc = "formatted"
    /\ Len(result) = 3
    /\ result[1][2] = <<"a">>
    /\ result[2][2] = <<>>
    /\ result[3][2] = <<" ">>
    /\ formatted.text = <<"a", " ", " ", " ">>

\* p0 top-left, p1 top-right, p2 bottom-right, p3 bottom-left (y grows downward)
CornerConvention(q) ==
    /\ q[1][1] <= q[2][1]
    /\ q[4][1] <= q[3][1]
    /\ q[1][2] <= q[4][2]
    /\ q[2][2] <= q[3][2]

(* C5: the box of a quadrilateral that follows the corner convention has    *)
(* x0 <= x1 and y0 <= y1.                                                   *)
C5_BoxIsOrdered ==
    (pure_pc = "box" /\ CornerConvention(quad))
        => bbox.x0 <= bbox.x1 /\ bbox.y0 <= bbox.y1

C5_Witness ==
    /\ pure_pc = "box"
    /\ CornerConvention(quad)
    /\ quad[1][1] > quad[4][1]
    /\ quad[2][2] < quad[1][2]
    /\ bbox.x0 < bbox.x1
    /\ bbox.y0 < bbox.y1

(* C6: a request that passed the presence check is answered either 200 with *)
(* the complete {text, words} payload and no exception, or 500 with a body  *)
(* holding only an error; every exception caught gives the 500.             *)
C6_FullPayloadOrError ==
    \A r \in Requests :
        /\ (pc[r] = "done" /\ (image_keys[r].files \/ image_keys[r].form))
               => \/ /\ resp[r].code = 200
                     /\ DOMAIN resp[r].body = {"text", "words"}
                     /\ resp[r].body = formatted_result[r]
                     /\ error[r] = NoError
                  \/ /\ resp[r].code = 500
                     /\ DOMAIN resp[r].body = {"error"}
                     /\ error[r] # NoError
        /\ error[r] # NoError => pc[r] = "done" /\ resp[r].code = 500

C6_Witness ==
    /\ \E r \in Requests :
           pc[r] = "done" /\ error[r].type = "IndexError" /\ resp[r].code = 500
    /\ \E r \in Requests :
           pc[r] = "done" /\ resp[r].code = 200 /\ Len(resp[r].body.words) = 1

(* C7: once a POST /api/ocr has been attempted, is_initialized is true and  *)
(* the health body reports it; every health response is 200 with status     *)
(* "ok" and the current flag, and producing it changes nothing else.        *)
C7_HealthReportsInitialized ==
    /\ []((\E r \in Requests : pc[r] # "new")
             => is_initialized /\ health_body(is_initialized).ocrInitialized)
    /\ [][healthResp' # healthResp
             => /\ healthResp'.code = 200
                /\ healthResp'.body.status = "ok"
                /\ healthResp'.body.ocrInitialized = is_initialized
                /\ UNCHANGED <<phase, ocr, is_initialized, readers, now, fs, pc,
                               image_keys, image_path, formatted_result, error,
                               resp>>]_vars

C7_Witness ==
    /\ \E r \in Requests : pc[r] = "done"
    /\ healthResp.code = 200
    /\ healthResp.body.ocrInitialized

(* C8: at most one easyocr.Reader is ever constructed, and once ocr holds a *)
(* reader no step constructs another or replaces it.                        *)
C8_EngineConstructedOnce ==
    /\ [](readers <= 1)
    /\ [][ocr = "Reader" => ocr' = "Reader" /\ readers' = readers]_vars

C8_Witness ==
    /\ readers = 1
    /\ \E r, q \in Requests : r # q /\ pc[r] = "ocr" /\ pc[q] = "ocr"

(* C9: while a request waits for the engine, the file at its image_path     *)
(* exists and is the one it wrote itself.                                   *)
C9_TempFileIsExclusive ==
    \A r \in Requests :
        pc[r] = "ocr"
            => /\ image_path[r] \in DOMAIN fs
               /\ fs[image_path[r]].writer = r

\* k is the floor of c / CoordDen
IsFloorOf(k, c) == k * CoordDen <= c /\ c < (k + 1) * CoordDen

\* k is c / CoordDen with its fractional part dropped
IsTruncationOf(k, c) ==
    IF c >= 0
    THEN k * CoordDen <= c /\ c < (k + 1) * CoordDen
    ELSE (k - 1) * CoordDen < c /\ c <= k * CoordDen

(* C10 as stated: each coordinate of the box is the floor of the min/max of *)
(* the two selected corners.                                                *)
C10_BoxIsFloorOfMinMax ==
    pure_pc = "box" =>
        /\ IsFloorOf(bbox.x0, Min2(quad[1][1], quad[4][1]))
        /\ IsFloorOf(bbox.y0, Min2(quad[1][2], quad[2][2]))
        /\ IsFloorOf(bbox.x1, Max2(quad[2][1], quad[3][1]))
        /\ IsFloorOf(bbox.y1, Max2(quad[3][2], quad[4][2]))

(* C10 amended: each coordinate of the box is the min/max of the two        *)
(* selected corners truncated toward zero.                                  *)
C10_BoxIsTruncationOfMinMax ==
    pure_pc = "box" =>
        /\ IsTruncationOf(bbox.x0, Min2(quad[1][1], quad[4][1]))
        /\ IsTruncationOf(bbox.y0, Min2(quad[1][2], quad[2][2]))
        /\ IsTruncationOf(bbox.x1, Max2(quad[2][1], quad[3][1]))
        /\ IsTruncationOf(bbox.y1, Max2(quad[3][2], quad[4][2]))

C10_Witness ==
    /\ pure_pc = "box"
    /\ Min2(quad[1][1], quad[4][1]) = 0 - 1
    /\ bbox.x0 = 0
    /\ Max2(quad[3][2], quad[4][2]) = 0 - 1
    /\ bbox.y1 = 0
    /\ Max2(quad[2][1], quad[3][1]) = CoordDen
    /\ bbox.x1 = 1

====
